---------------------------- MODULE Spec2Model ----------------------------
(***************************************************************************)
(* Lunar phase calculator of lunar-market (src/src/lib/moonPhases.ts).     *)
(*                                                                         *)
(* Numbers.  The code computes in IEEE doubles; the model computes the     *)
(* same expressions in exact arithmetic:                                   *)
(*   - an instant or a length of time is a whole number of ticks, one tick *)
(*     being 1/1000 ms, so that a Date (whole ms), the day (86400000 ms)   *)
(*     and the periods 29.53058867, 27.55 and 27.321661 days are all whole;*)
(*     a value "x days" of the code is the tick count x * 86400000000;     *)
(*   - tick counts exceed 32 bits and are carried as Big numbers           *)
(*     [hi, lo] = hi * Base + lo with 0 <= lo < Base;                      *)
(*   - a dimensionless real r (phase, cosine, illumination, distance) is   *)
(*     the integer floor(r * Scale);                                       *)
(*   - Math.cos is a rational approximation with the range [-1, 1], the    *)
(*     symmetries and the extrema of the cosine (error below 0.002).       *)
(* The rounding of the doubles is not modelled.  A Date holds whole ms;    *)
(* the arrays below also hold instants between two ms, because the periods *)
(* the properties step by are whole in ticks and not in ms.                *)
(***************************************************************************)
EXTENDS Integers, Sequences, FiniteSets, TLC

VARIABLES
    dates,   \* the Date[] handed to calculateMoonPhasesForDates
    out,     \* the MoonPhaseData[] produced so far by dates.map(...)
    tz,      \* the environment's local time zone offset, minutes east of UTC
    moons,   \* MoonPhaseData records handed to isSupermoon and isMicromoon
    sizes,   \* the isSupermoon / isMicromoon flags computed for them so far
    props,   \* the argument lists the insight panel passes in this run
    calls,   \* the calls made so far, each with its locals and its result
    now,     \* Date.now() at the last event, in ms
    insightCache,  \* the Map insightCache: cache key -> {insight, timestamp}
    clock,   \* the time new Date() returns
    dashboard,     \* the state of the component ImmersiveDashboard
    loads,   \* the runs of loadData so far, each with its locals
    engine,  \* the fields of the CosmicSoundEngine cosmicSounds
    browser  \* what the engine has started in the browser: nodes, timers, play()

\* the variables of the calculator
calcVars == <<dates, out>>

\* the variables of the supermoon / micromoon predicates
sizeVars == <<moons, sizes>>

\* the variables of the insight functions
insightVars == <<props, calls, now, insightCache>>

\* the variables of the dashboard
stockVars == <<clock, dashboard, loads>>

\* the variables of the sound engine
soundVars == <<engine, browser>>

vars ==
    <<dates, out, tz, moons, sizes, props, calls, now, insightCache,
      clock, dashboard, loads, engine, browser>>

\* nothing handed to the calculator
CalcIdle == dates = << >> /\ out = << >>

\* nothing handed to isSupermoon / isMicromoon
SizeIdle == moons = << >> /\ sizes = << >>

\* no insight asked for, the cache as created: new Map()
InsightIdle ==
    /\ props = << >>
    /\ calls = << >>
    /\ now = 0
    /\ insightCache = << >>

\* the dashboard not mounted
StockIdle ==
    /\ clock = << >>
    /\ dashboard = << >>
    /\ loads = << >>

\* the module of the sound engine not loaded
SoundIdle == engine = << >> /\ browser = << >>

---------------------------------------------------------------------------
(* Big numbers: exact integers beyond 32 bits.                             *)

Base == 10000 * 10000

Norm(h, l) == [hi |-> h + (l \div Base), lo |-> l % Base]

BigOf(n) == Norm(0, n)

Zero == BigOf(0)

Add(a, b) == Norm(a.hi + b.hi, a.lo + b.lo)

Sub(a, b) == Norm(a.hi - b.hi, a.lo - b.lo)

Neg(a) == Sub(Zero, a)

Less(a, b) == a.hi < b.hi \/ (a.hi = b.hi /\ a.lo < b.lo)

Leq(a, b) == a = b \/ Less(a, b)

IsNeg(a) == a.hi < 0

\* a * k for a digit 0 <= k <= 10000
MulDigit(a, k) ==
    LET t == (a.lo \div 10000) * k
    IN  Norm(a.hi * k + (t \div 10000), (t % 10000) * 10000 + (a.lo % 10000) * k)

\* a * n for 0 <= n < Base
MulNat(a, n) ==
    Add(MulDigit(MulDigit(a, n \div 10000), 10000), MulDigit(a, n % 10000))

\* a * n for -Base < n < Base
Mul(a, n) == IF n < 0 THEN Neg(MulNat(a, -n)) ELSE MulNat(a, n)

RECURSIVE DivModNat(_, _)
\* quotient (a small integer) and remainder of a >= 0 by b >= Base: long
\* division, each step taking the part of the quotient that the leading limbs
\* show (never more than the true quotient)
DivModNat(a, b) ==
    IF Less(a, b) THEN [q |-> 0, r |-> a]
    ELSE LET e == IF a.hi \div (b.hi + 1) > 0 THEN a.hi \div (b.hi + 1) ELSE 1
             s == DivModNat(Sub(a, MulNat(b, e)), b)
         IN  [q |-> e + s.q, r |-> s.r]

\* floor(a / b) for b > 0: Math.floor of a real quotient
FloorDiv(a, b) ==
    IF IsNeg(a)
    THEN LET s == DivModNat(Neg(a), b)
         IN  IF s.r = Zero THEN -s.q ELSE -s.q - 1
    ELSE DivModNat(a, b).q

\* JavaScript's a % b for b > 0: the remainder takes the sign of the dividend
JSMod(a, b) ==
    IF IsNeg(a) THEN Neg(DivModNat(Neg(a), b).r) ELSE DivModNat(a, b).r

---------------------------------------------------------------------------
(* Units.                                                                  *)

\* reals are carried as floor(r * Scale); a multiple of 16 so that the
\* thresholds of getPhaseName are exact
Scale == 16 * 100

\* 1000 * 60 * 60 * 24 ms in a day, 1000 ticks in a ms
TicksPerDay == MulNat(BigOf(1000 * 60 * 60 * 24), 1000)

\* whole.frac8 days as ticks: Days(29, 53058867) is 29.53058867 days
\* (1e-8 day = 864 ticks)
Days(whole, frac8) == Add(MulNat(TicksPerDay, whole), MulNat(BigOf(864), frac8))

\* the real a / b as floor(a / b * Scale)
Ratio(a, b) == FloorDiv(Mul(a, Scale), b)

---------------------------------------------------------------------------
(* Date: Date.UTC and getMonth.                                            *)

\* days from 1970-01-01 to the civil date y-m-d (m in 1..12)
DaysFromCivil(y, m, d) ==
    LET yy  == IF m <= 2 THEN y - 1 ELSE y
        era == yy \div 400
        yoe == yy - era * 400
        mp  == (m + 9) % 12
        doy == (153 * mp + 2) \div 5 + d - 1
        doe == yoe * 365 + yoe \div 4 - yoe \div 100 + doy
    IN  era * 146097 + doe - 719468

\* Date.UTC(year, month, day, hours, minutes, seconds), month in 0..11
DateUTC(year, month, day, hours, minutes, seconds) ==
    Add(Mul(TicksPerDay, DaysFromCivil(year, month + 1, day)),
        MulNat(BigOf(1000 * 1000), hours * 3600 + minutes * 60 + seconds))

\* the month (0..11) of the civil date that is z days after 1970-01-01
MonthFromDays(z) ==
    LET zz  == z + 719468
        era == zz \div 146097
        doe == zz - era * 146097
        yoe == (doe - doe \div 1460 + doe \div 36524 - doe \div 146096) \div 365
        doy == doe - (365 * yoe + yoe \div 4 - yoe \div 100)
        mp  == (5 * doy + 2) \div 153
    IN  IF mp < 10 THEN mp + 2 ELSE mp - 10

\* date.getMonth(): the month of the date in the environment's local time
getMonth(date, zone) ==
    MonthFromDays(FloorDiv(Add(date, Mul(BigOf(60 * 1000 * 1000), zone)), TicksPerDay))

---------------------------------------------------------------------------
(* src/src/lib/moonPhases.ts                                               *)

\* 29.53058867: synodic month in days
LUNAR_CYCLE == Days(29, 53058867)

\* perigee in km
LUNAR_DISTANCE_MIN == 356500

\* apogee in km
LUNAR_DISTANCE_MAX == 406700

\* new Date(Date.UTC(2024, 0, 11, 11, 57, 0))
KNOWN_NEW_MOON == DateUTC(2024, 0, 11, 11, 57, 0)

\* the literal 27.55 (anomalistic month in days)
ANOMALISTIC_MONTH == Days(27, 55000000)

\* Math.cos(x * 2 * Math.PI) for x = p / Scale turns, as floor-free rounding of
\* Bhaskara's rational approximation cos(t) = (pi^2 - 4 t^2) / (pi^2 + t^2) on
\* the first quarter turn, extended by cos(-t) = cos(t), cos(pi - t) = -cos(t)
\* and the period of one turn.  Exact at 0, 1/4, 1/2 and 3/4 turn.
cosFirstQuarter(k) ==
    LET Q   == Scale \div 4
        num == 4 * (Q * Q - k * k) * Scale
        den == 4 * Q * Q + k * k
    IN  (2 * num + den) \div (2 * den)

cosTurns(p) ==
    LET m == p % Scale
        f == IF m > Scale \div 2 THEN Scale - m ELSE m
    IN  IF f <= Scale \div 4 THEN cosFirstQuarter(f)
                             ELSE -cosFirstQuarter(Scale \div 2 - f)

\* mutant of daysSinceNewMoon: the zodiac reference date 2024-01-01 taken for
\* the reference new moon
daysSinceZodiacRef(date) == Sub(date, DateUTC(2024, 0, 1, 0, 0, 0))

\* mutant of daysSinceNewMoon: the operands of the subtraction exchanged
daysBeforeNewMoon(date) == Sub(KNOWN_NEW_MOON, date)

\* (date.getTime() - KNOWN_NEW_MOON.getTime()) / (1000 * 60 * 60 * 24), in ticks
daysSinceNewMoon(date) == Sub(date, KNOWN_NEW_MOON)

\* mutant of age: a single %, which keeps the sign of a negative dividend
ageSingleMod(d) == JSMod(d, LUNAR_CYCLE)

\* mutant of age: the sign dropped with Math.abs before the %
ageAbs(d) == JSMod(IF IsNeg(d) THEN Neg(d) ELSE d, LUNAR_CYCLE)

\* ((daysSinceNewMoon % LUNAR_CYCLE) + LUNAR_CYCLE) % LUNAR_CYCLE, in ticks
age(d) == JSMod(Add(JSMod(d, LUNAR_CYCLE), LUNAR_CYCLE), LUNAR_CYCLE)

\* mutant of phase: the age divided by the anomalistic instead of the synodic month
phaseOverAnomalistic(a) == Ratio(a, ANOMALISTIC_MONTH)

\* age / LUNAR_CYCLE
phase(a) == Ratio(a, LUNAR_CYCLE)

\* mutant of illumination: the division by 2 left out
illuminationNoHalf(p) == (Scale - cosTurns(p)) * 100

\* mutant of illumination: 1 + cos in place of 1 - cos
illuminationInverted(p) == ((Scale + cosTurns(p)) * 100) \div 2

\* (1 - Math.cos(phase * 2 * Math.PI)) / 2 * 100
illumination(p) == ((Scale - cosTurns(p)) * 100) \div 2

\* mutant of anomalisticPhase: the non-negative double-mod pattern
anomalisticPhaseNormalised(d) ==
    Ratio(JSMod(Add(JSMod(d, ANOMALISTIC_MONTH), ANOMALISTIC_MONTH), ANOMALISTIC_MONTH),
          ANOMALISTIC_MONTH)

\* mutant of anomalisticPhase: the synodic month in place of 27.55 days
anomalisticPhaseOverSynodic(d) == Ratio(JSMod(d, LUNAR_CYCLE), LUNAR_CYCLE)

\* (daysSinceNewMoon % 27.55) / 27.55
anomalisticPhase(d) == Ratio(JSMod(d, ANOMALISTIC_MONTH), ANOMALISTIC_MONTH)

distanceRange == LUNAR_DISTANCE_MAX - LUNAR_DISTANCE_MIN

\* mutant of distance: the division by 2 left out
distanceNoHalf(ap) ==
    LUNAR_DISTANCE_MIN * Scale + (Scale - cosTurns(ap)) * distanceRange

\* LUNAR_DISTANCE_MIN + (1 - Math.cos(anomalisticPhase * 2 * Math.PI)) / 2 * distanceRange
distance(ap) ==
    LUNAR_DISTANCE_MIN * Scale + ((Scale - cosTurns(ap)) * distanceRange) \div 2

\* the decimal literal 0.nnnn
Dec4(nnnn) == (nnnn * Scale) \div 10000

\* mutant of getPhaseName: <= where the code has <, > where it has >=
getPhaseNameInclusive(p) ==
    IF p <= Dec4(625) \/ p > Dec4(9375) THEN "New Moon"
    ELSE IF p <= Dec4(1875) THEN "Waxing Crescent"
    ELSE IF p <= Dec4(3125) THEN "First Quarter"
    ELSE IF p <= Dec4(4375) THEN "Waxing Gibbous"
    ELSE IF p <= Dec4(5625) THEN "Full Moon"
    ELSE IF p <= Dec4(6875) THEN "Waning Gibbous"
    ELSE IF p <= Dec4(8125) THEN "Last Quarter"
    ELSE "Waning Crescent"

getPhaseName(p) ==
    IF p < Dec4(625) \/ p >= Dec4(9375) THEN "New Moon"
    ELSE IF p < Dec4(1875) THEN "Waxing Crescent"
    ELSE IF p < Dec4(3125) THEN "First Quarter"
    ELSE IF p < Dec4(4375) THEN "Waxing Gibbous"
    ELSE IF p < Dec4(5625) THEN "Full Moon"
    ELSE IF p < Dec4(6875) THEN "Waning Gibbous"
    ELSE IF p < Dec4(8125) THEN "Last Quarter"
    ELSE "Waning Crescent"

zodiacs ==
    << "Aries", "Taurus", "Gemini", "Cancer", "Leo", "Virgo",
       "Libra", "Scorpio", "Sagittarius", "Capricorn", "Aquarius", "Pisces" >>

\* new Date(Date.UTC(2024, 0, 1))
refDate == DateUTC(2024, 0, 1, 0, 0, 0)

\* (date.getTime() - refDate.getTime()) / (1000 * 60 * 60 * 24), in ticks
daysSinceRef(date) == Sub(date, refDate)

siderealMonth == Days(27, 32166100)

\* mutant of zodiacIndex: Math.round in place of Math.floor
zodiacIndexRounded(date) ==
    LET x == Add(Mul(daysSinceRef(date), 12), Mul(siderealMonth, 9))
        r == JSMod(x, Mul(siderealMonth, 12))
    IN  FloorDiv(Add(Add(r, r), siderealMonth), Add(siderealMonth, siderealMonth))

\* Math.floor(zodiacPosition) for
\* zodiacPosition = ((daysSinceRef / siderealMonth) * 12 + 9) % 12,
\* computed on the numerators over the common denominator siderealMonth
zodiacIndex(date) ==
    LET x == Add(Mul(daysSinceRef(date), 12), Mul(siderealMonth, 9))
    IN  FloorDiv(JSMod(x, Mul(siderealMonth, 12)), siderealMonth)

\* zodiacs[Math.floor(zodiacPosition)]: an index outside the array reads undefined
getZodiacSign(date) ==
    LET i == zodiacIndex(date)
    IN  IF i \in 0..(Len(zodiacs) - 1) THEN zodiacs[i + 1] ELSE "undefined"

names ==
    << "Wolf Moon", "Snow Moon", "Worm Moon", "Pink Moon", "Flower Moon",
       "Strawberry Moon", "Buck Moon", "Sturgeon Moon", "Harvest Moon",
       "Hunter's Moon", "Beaver Moon", "Cold Moon" >>

\* the words of a phase name
Words(s) ==
    CASE s = "New Moon"        -> << "New", "Moon" >>
      [] s = "Waxing Crescent" -> << "Waxing", "Crescent" >>
      [] s = "First Quarter"   -> << "First", "Quarter" >>
      [] s = "Waxing Gibbous"  -> << "Waxing", "Gibbous" >>
      [] s = "Full Moon"       -> << "Full", "Moon" >>
      [] s = "Waning Gibbous"  -> << "Waning", "Gibbous" >>
      [] s = "Last Quarter"    -> << "Last", "Quarter" >>
      [] s = "Waning Crescent" -> << "Waning", "Crescent" >>

\* phaseName.includes(w) for a word w
Includes(s, w) == \E i \in 1..Len(Words(s)) : Words(s)[i] = w

\* mutant of getSpecialMoonName: a table without its last month
getSpecialMoonNameWithoutDecember(date, phaseName, zone) ==
    IF ~Includes(phaseName, "Full") THEN "null"
    ELSE LET month == getMonth(date, zone)
         IN  IF month \in 0..(Len(names) - 2) THEN names[month + 1] ELSE "null"

\* mutant of getSpecialMoonName: the test for "Moon" in place of "Full"
getSpecialMoonNameOfAnyMoon(date, phaseName, zone) ==
    IF ~Includes(phaseName, "Moon") THEN "null"
    ELSE LET month == getMonth(date, zone)
         IN  IF month \in 0..(Len(names) - 1) THEN names[month + 1] ELSE "null"

\* if (!phaseName.includes("Full")) return null; names[date.getMonth()] || null
getSpecialMoonName(date, phaseName, zone) ==
    IF ~Includes(phaseName, "Full") THEN "null"
    ELSE LET month == getMonth(date, zone)
         IN  IF month \in 0..(Len(names) - 1) THEN names[month + 1] ELSE "null"

calculateMoonPhase(date, zone) ==
    LET d  == daysSinceNewMoon(date)
        a  == age(d)
        p  == phase(a)
        pn == getPhaseName(p)
    IN  [ phase        |-> p,
          age          |-> a,
          phaseName    |-> pn,
          illumination |-> illumination(p),
          distance     |-> distance(anomalisticPhase(d)),
          zodiac       |-> getZodiacSign(date),
          moonName     |-> getSpecialMoonName(date, pn, zone) ]

\* dates.map(calculateMoonPhase): one element per step, in order
MapStep ==
    /\ Len(out) < Len(dates)
    /\ out' = Append(out, calculateMoonPhase(dates[Len(out) + 1], tz))
    /\ UNCHANGED <<dates, tz>>
    /\ UNCHANGED <<sizeVars, insightVars, stockVars, soundVars>>

---------------------------------------------------------------------------
(* Inputs: arrays of equally spaced dates.                                 *)

\* length of the arrays
MaxDates == 16

\* first dates lie up to this many days before and after KNOWN_NEW_MOON
MaxStartDays == 35

\* ... and on 1 January up to this many centuries before and after 2024
MaxCenturies == 2

\* a / n for a >= 0 and 0 < n <= 16
DivSmall(a, n) == Norm(a.hi \div n, ((a.hi % n) * Base + a.lo) \div n)

Starts ==
    {Add(KNOWN_NEW_MOON, Mul(TicksPerDay, k)) : k \in -MaxStartDays..MaxStartDays}
    \cup {DateUTC(2024 + 100 * c, 0, 1, 0, 0, 0) : c \in -MaxCenturies..MaxCenturies}
    \cup {Add(KNOWN_NEW_MOON, Days(14, 76500000))}

\* the synodic month, its sixteenth (the width of half a phase bin), the
\* sidereal month, its twelfth (the width of a sign), 14.765 days, and the
\* step from 14.765 days to half a synodic month
Strides ==
    { LUNAR_CYCLE, DivSmall(LUNAR_CYCLE, 16),
      siderealMonth, DivSmall(siderealMonth, 12),
      Days(14, 76500000), Sub(DivSmall(LUNAR_CYCLE, 2), Days(14, 76500000)) }

Progression(start, stride) ==
    [i \in 1..MaxDates |-> Add(start, Mul(stride, i - 1))]

\* UTC-12 .. UTC+14
TimeZones == {-12 * 60, 0, 14 * 60}

Init ==
    /\ dates \in {Progression(s, d) : s \in Starts, d \in Strides}
    /\ out = << >>
    /\ tz \in TimeZones
    /\ SizeIdle
    /\ InsightIdle
    /\ StockIdle
    /\ SoundIdle

Next == MapStep

Spec == Init /\ [][Next]_vars

---------------------------------------------------------------------------
(* isSupermoon and isMicromoon, applied to records of every phase name and *)
(* of distances on, next to and away from their thresholds.                *)

\* mutant of isSupermoon: <= where the code has <
isSupermoonInclusive(data) ==
    data.phaseName = "Full Moon" /\ data.distance <= 360000 * Scale

\* data.phaseName === "Full Moon" && data.distance < 360000
isSupermoon(data) ==
    data.phaseName = "Full Moon" /\ data.distance < 360000 * Scale

\* mutant of isMicromoon: >= where the code has >
isMicromoonInclusive(data) ==
    data.phaseName = "Full Moon" /\ data.distance >= 400000 * Scale

\* data.phaseName === "Full Moon" && data.distance > 400000
isMicromoon(data) ==
    data.phaseName = "Full Moon" /\ data.distance > 400000 * Scale

\* isSupermoon: isSupermoon(moon), isMicromoon: isMicromoon(moon), one record
\* per step, in order
SizeStep ==
    /\ Len(sizes) < Len(moons)
    /\ sizes' = Append(sizes, [ isSupermoon |-> isSupermoon(moons[Len(sizes) + 1]),
                                isMicromoon |-> isMicromoon(moons[Len(sizes) + 1]) ])
    /\ UNCHANGED <<calcVars, tz, moons, insightVars, stockVars, soundVars>>

\* the 8 values of phaseName
MoonPhaseNames ==
    { "New Moon", "Waxing Crescent", "First Quarter", "Waxing Gibbous",
      "Full Moon", "Waning Gibbous", "Last Quarter", "Waning Crescent" }

\* distances in units of 1 / Scale km: the least and the greatest distance,
\* the two thresholds, their neighbours one unit and one km away, and the
\* middle of the range
Distances ==
    << LUNAR_DISTANCE_MIN * Scale,
       359999 * Scale, 360000 * Scale - 1, 360000 * Scale, 360000 * Scale + 1,
       360001 * Scale, ((LUNAR_DISTANCE_MIN + LUNAR_DISTANCE_MAX) \div 2) * Scale,
       399999 * Scale, 400000 * Scale - 1, 400000 * Scale, 400000 * Scale + 1,
       400001 * Scale, LUNAR_DISTANCE_MAX * Scale >>

\* the records of phase name a at every distance, then those of phase name b
RecordsOf(a, b) ==
    [i \in 1..(2 * Len(Distances)) |->
        IF i <= Len(Distances)
        THEN [phaseName |-> a, distance |-> Distances[i]]
        ELSE [phaseName |-> b, distance |-> Distances[i - Len(Distances)]]]

InitMoonSize ==
    /\ moons \in {RecordsOf(a, b) : a, b \in MoonPhaseNames}
    /\ sizes = << >>
    /\ CalcIdle
    /\ tz = 0
    /\ InsightIdle
    /\ StockIdle
    /\ SoundIdle

SpecMoonSize == InitMoonSize /\ [][SizeStep]_vars

---------------------------------------------------------------------------
(* src/src/lib/mistralAI.ts: generateLunarInsight and getFallbackInsight.  *)
(*                                                                         *)
(* A JavaScript value is a record: its type, its text (of a string) or its *)
(* name (of a function), and, for the text the API returned, the prompt it *)
(* was asked for.                                                          *)

\* the prompt of a text that is no reply of the API
NoPrompt ==
    [ phaseName |-> "", illumination |-> -1, stockPrice |-> -1,
      stockSymbol |-> "", priceChange |-> 0, zodiac |-> "", formattedDate |-> -1 ]

Undefined == [type |-> "undefined", text |-> "", prompt |-> NoPrompt]

Str(t) == [type |-> "string", text |-> t, prompt |-> NoPrompt]

Func(n) == [type |-> "function", text |-> n, prompt |-> NoPrompt]

\* the values JavaScript takes for true in a || b
Truthy(v) == v.type = "function" \/ (v.type = "string" /\ v.text # "")

\* a || b
Or(a, b) == IF Truthy(a) THEN a ELSE b

\* the own properties of the object literal `insights`
insights ==
    ("New Moon" :> "The New Moon brings a veil of uncertainty. Markets often pause for reflection during this dark phase, as traders await new signals.")
    @@ ("Waxing Crescent" :> "As light returns to the lunar surface, optimism builds. Early movers position themselves for the growth cycle ahead.")
    @@ ("First Quarter" :> "The First Quarter marks a decision point. Half-lit skies mirror the market's indecision between bulls and bears.")
    @@ ("Waxing Gibbous" :> "Momentum builds as the moon approaches fullness. Markets often ride waves of increasing confidence during this phase.")
    @@ ("Full Moon" :> "Under the Full Moon's glow, emotions run high. Expect heightened volatility as lunar energy peaks in the markets.")
    @@ ("Waning Gibbous" :> "Post-peak reflection begins. Wise traders take profits as the moon's light slowly diminishes.")
    @@ ("Last Quarter" :> "The Last Quarter signals transition. Markets reassess positions as the lunar cycle winds down.")
    @@ ("Waning Crescent" :> "In the moon's final whisper, patience is rewarded. The wise prepare for the next cycle's opportunities.")

\* the methods an object literal inherits from Object.prototype
ObjectPrototype ==
    { "constructor", "hasOwnProperty", "isPrototypeOf", "propertyIsEnumerable",
      "toLocaleString", "toString", "valueOf" }

\* insights[phaseName]: an own property, else an inherited one, else undefined
insightsAt(phaseName) ==
    IF phaseName \in DOMAIN insights THEN Str(insights[phaseName])
    ELSE IF phaseName \in ObjectPrototype THEN Func(phaseName)
    ELSE Undefined

\* insights[phaseName] || insights["Full Moon"]
getFallbackInsight(phaseName) == Or(insightsAt(phaseName), insightsAt("Full Moon"))

\* the calendar day of the date in the local time zone, as the number of the
\* day since 1970-01-01: what toDateString and toLocaleDateString keep of it
toDateString(date, zone) ==
    FloorDiv(Add(date, Mul(BigOf(60 * 1000 * 1000), zone)), TicksPerDay)

\* the values the prompt is written from (lines 26-41); the numbers of the
\* inputs are whole, so that toFixed changes none of them
Prompt(args, zone) ==
    [ phaseName     |-> args.phaseName,
      illumination  |-> args.illumination,
      stockPrice    |-> args.stockPrice,
      stockSymbol   |-> args.stockSymbol,
      priceChange   |-> args.priceChange,
      zodiac        |-> args.zodiac,
      formattedDate |-> toDateString(args.date, zone) ]

\* what the HTTP call can end in: fetch rejects; a status that is not ok;
\* response.json() rejects; a body without the array choices; an empty array
\* choices; a first choice with no or with empty content; a content
Outcomes ==
    { "fetch rejects", "status not ok", "json rejects", "no choices",
      "empty choices", "empty content", "content" }

\* data.choices[0]?.message?.content
Content(args, outcome, zone) ==
    CASE outcome = "empty choices" -> Undefined
      [] outcome = "empty content" -> Str("")
      [] outcome = "content" ->
             [type |-> "string", text |-> "reply", prompt |-> Prompt(args, zone)]

\* the try block, lines 43-73: it throws (fetch, the status, response.json(),
\* or the TypeError of undefined[0]) or it returns
TryBlock(args, outcome, zone) ==
    IF outcome \in {"fetch rejects", "status not ok", "json rejects", "no choices"}
    THEN [threw |-> TRUE, value |-> Undefined]
    ELSE [threw |-> FALSE,
          value |-> Or(Content(args, outcome, zone), getFallbackInsight(args.phaseName))]

\* the value the promise of generateLunarInsight resolves to
generateLunarInsight(args, outcome, zone) ==
    LET t == TryBlock(args, outcome, zone)
    IN  IF t.threw THEN getFallbackInsight(args.phaseName) ELSE t.value

\* the calls of a run
MaxCalls == 3

\* the elements of a sequence
Range(seq) == {seq[i] : i \in 1..Len(seq)}

\* the arguments the panel passes for a phase name: the reference new moon
\* for the date, whole numbers for the rest
BaseArgs(phaseName) ==
    [ phaseName    |-> phaseName,
      illumination |-> 98,
      stockPrice   |-> 450,
      stockSymbol  |-> "SPY",
      priceChange  |-> 1,
      zodiac       |-> "Leo",
      date         |-> KNOWN_NEW_MOON ]

\* generateLunarInsight(...) is called: the promise is pending, the request
\* under way
GenerateCalled(args) ==
    /\ Len(calls) < MaxCalls
    /\ calls' = Append(calls, [ args    |-> args,
                                pc      |-> "pending",
                                outcome |-> "",
                                result  |-> Undefined ])
    /\ UNCHANGED <<calcVars, tz, sizeVars, props, now, insightCache, stockVars, soundVars>>

\* the HTTP call of the i-th call ends and its promise settles
GenerateSettles(i, outcome) ==
    /\ calls[i].pc = "pending"
    /\ calls' = [calls EXCEPT
                    ![i].pc = "resolved",
                    ![i].outcome = outcome,
                    ![i].result = generateLunarInsight(calls[i].args, outcome, tz)]
    /\ UNCHANGED <<calcVars, tz, sizeVars, props, now, insightCache, stockVars, soundVars>>

\* the 8 phase names, a name that is none of them, and one that is the name
\* of a method of every object
InsightPhaseNames == MoonPhaseNames \cup {"Blue Moon", "constructor"}

InitGenerate ==
    /\ props \in {<<BaseArgs(n)>> : n \in InsightPhaseNames}
    /\ calls = << >>
    /\ now = 0
    /\ insightCache = << >>
    /\ tz = 0
    /\ CalcIdle
    /\ SizeIdle
    /\ StockIdle
    /\ SoundIdle

NextGenerate ==
    \/ \E args \in Range(props) : GenerateCalled(args)
    \/ \E i \in 1..Len(calls) : \E outcome \in Outcomes : GenerateSettles(i, outcome)

SpecGenerate == InitGenerate /\ [][NextGenerate]_vars

---------------------------------------------------------------------------
(* src/src/lib/mistralAI.ts: insightCache and getCachedInsight.  A call    *)
(* runs up to its await in one step and from the end of the HTTP call to   *)
(* its return in another; calls overlap freely in between.                 *)

\* 5 minutes in ms
CACHE_DURATION == 5 * 60 * 1000

\* `${phaseName}-${stockSymbol}-${date.toDateString()}`: the three parts of
\* the template string
CacheKey(args, zone) ==
    [ phaseName   |-> args.phaseName,
      stockSymbol |-> args.stockSymbol,
      dateString  |-> toDateString(args.date, zone) ]

\* mutant of Fresh: an entry counts only if it holds a reply of the API, so
\* that a fallback is not served from the cache
FreshReply(cached, time) ==
    time - cached.timestamp < CACHE_DURATION /\ cached.insight.text = "reply"

\* mutant of Fresh: <= where the code has <
FreshInclusive(cached, time) == time - cached.timestamp <= CACHE_DURATION

\* Date.now() - cached.timestamp < CACHE_DURATION
Fresh(cached, time) == time - cached.timestamp < CACHE_DURATION

\* insightCache.set(key, value)
MapSet(map, key, value) ==
    [k \in DOMAIN map \cup {key} |-> IF k = key THEN value ELSE map[k]]

\* the events of a run: the calls and the ends of HTTP calls
MaxEvents == 5

\* the events so far
Events ==
    Len(calls)
    + Cardinality({i \in 1..Len(calls) :
                      calls[i].pc = "resolved" /\ calls[i].requests = 1})

\* getCachedInsight(...) is called, `elapsed` ms after the last event, and
\* runs to its return (a cached insight) or to the await of the request
CachedInsightCalled(args, elapsed) ==
    /\ Len(calls) < MaxCalls
    /\ Events < MaxEvents
    /\ now' = now + elapsed
    /\ LET cacheKey == CacheKey(args, tz)
       IN  IF cacheKey \in DOMAIN insightCache /\ Fresh(insightCache[cacheKey], now')
           THEN calls' = Append(calls, [ args     |-> args,
                                         cacheKey |-> cacheKey,
                                         requests |-> 0,
                                         pc       |-> "resolved",
                                         result   |-> insightCache[cacheKey].insight ])
           ELSE calls' = Append(calls, [ args     |-> args,
                                         cacheKey |-> cacheKey,
                                         requests |-> 1,
                                         pc       |-> "pending",
                                         result   |-> Undefined ])
    /\ UNCHANGED <<calcVars, tz, sizeVars, props, insightCache, stockVars, soundVars>>

\* the HTTP call of the i-th call ends, `elapsed` ms after the last event:
\* generateLunarInsight resolves, the insight is stored and returned
CachedInsightSettles(i, outcome, elapsed) ==
    /\ calls[i].pc = "pending"
    /\ Events < MaxEvents
    /\ now' = now + elapsed
    /\ LET insight == generateLunarInsight(calls[i].args, outcome, tz)
       IN  /\ insightCache' = MapSet(insightCache, calls[i].cacheKey,
                                     [insight |-> insight, timestamp |-> now'])
           /\ calls' = [calls EXCEPT ![i].pc = "resolved", ![i].result = insight]
    /\ UNCHANGED <<calcVars, tz, sizeVars, props, stockVars, soundVars>>

\* the time between two events: 1 ms, or 1 ms less than CACHE_DURATION
Elapsed == {1, CACHE_DURATION - 1}

\* the arguments after a change of the panel's props: none, one of the four
\* values the key leaves out, or one of the three parts of the key (the date
\* 13 hours later, which is another calendar day in some time zones only)
Variants(args) ==
    { args,
      [args EXCEPT !.stockPrice = 460],
      [args EXCEPT !.priceChange = -1],
      [args EXCEPT !.illumination = 99],
      [args EXCEPT !.zodiac = "Virgo"],
      [args EXCEPT !.stockSymbol = "QQQ"],
      [args EXCEPT !.phaseName = "Waning Gibbous"],
      [args EXCEPT !.date = Add(args.date, Mul(BigOf(60 * 1000 * 1000), 13 * 60))] }

InitCache ==
    /\ props \in {<<BaseArgs("Full Moon"), v>> : v \in Variants(BaseArgs("Full Moon"))}
    /\ calls = << >>
    /\ now = 0
    /\ insightCache = << >>
    /\ tz \in TimeZones
    /\ CalcIdle
    /\ SizeIdle
    /\ StockIdle
    /\ SoundIdle

NextCache ==
    \/ \E args \in Range(props) : \E elapsed \in Elapsed :
           CachedInsightCalled(args, elapsed)
    \/ \E i \in 1..Len(calls) : \E outcome \in Outcomes : \E elapsed \in Elapsed :
           CachedInsightSettles(i, outcome, elapsed)

SpecCache == InitCache /\ [][NextCache]_vars

---------------------------------------------------------------------------
(* fetchDailyStockData (src/src/lib/mistralAI.ts) and loadData of the      *)
(* dashboard (src/src/components/HeroMoon.tsx).  Of a StockDataPoint the   *)
(* date, the close and the volume are carried, of a DayData the date, the  *)
(* price and the volume; the fields of the moon of a DayData are           *)
(* calculateMoonPhase of its date and are not carried, nor is the random   *)
(* price of an entry of the mock data.  An optional value is a sequence of *)
(* at most one element.                                                    *)

\* the instant of an hour of a day in local time; the day counts from
\* 1970-01-01
LocalTime(day, hours, zone) ==
    Add(Mul(TicksPerDay, day), Mul(BigOf(60 * 1000 * 1000), hours * 60 - zone))

\* new Date(year, month - 1, day, 12, 0, 0) of a key "YYYY-MM-DD"
ParseDate(key, zone) ==
    LocalTime(DaysFromCivil(key.year, (key.month - 1) + 1, key.day), 12, zone)

\* Object.entries(timeSeries).map(...): the keys parsed; the numbers of the
\* inputs are whole, so that parseFloat and parseInt change none of them
ParseSeries(timeSeries, zone) ==
    LET points == [i \in 1..Len(timeSeries) |->
                      [ date   |-> ParseDate(timeSeries[i], zone),
                        close  |-> timeSeries[i].close,
                        volume |-> timeSeries[i].volume ]]
    IN  SubSeq(points, 1, Len(timeSeries))

\* .sort((a, b) => a.date.getTime() - b.date.getTime()) of points of
\* different dates
SortByDate(points) ==
    LET n     == Len(points)
        before(i) == Cardinality({j \in 1..n : Less(points[j].date, points[i].date)})
        rank  == SubSeq([i \in 1..n |-> 1 + before(i)], 1, n)
    IN  [k \in 1..n |-> points[CHOOSE i \in 1..n : rank[i] = k]]

\* mutant of LastSixty: stockData.slice(0, 60)
FirstSixty(points) ==
    IF Len(points) <= 60 THEN points ELSE SubSeq(points, 1, 60)

\* stockData.slice(-60)
LastSixty(points) ==
    IF Len(points) <= 60 THEN points
    ELSE SubSeq(points, Len(points) - 59, Len(points))

\* the try block, lines 561-600: it throws (fetch, response.json(), or the
\* Error of an "Error Message") or it returns
FetchTryBlock(response, zone) ==
    IF response.fetched # "json" \/ response.errorMessage
    THEN [threw |-> TRUE, value |-> << >>]
    ELSE IF response.note \/ response.timeSeries = << >>
    THEN [threw |-> FALSE, value |-> << >>]
    ELSE [threw |-> FALSE,
          value |-> LastSixty(SortByDate(ParseSeries(response.timeSeries[1], zone)))]

\* mutant of fetchDailyStockData: no catch, what the try block throws
\* rejects the promise
fetchDailyStockDataUncaught(response, zone) ==
    LET t == FetchTryBlock(response, zone)
    IN  IF t.threw THEN [state |-> "rejected", value |-> << >>]
        ELSE [state |-> "resolved", value |-> t.value]

\* how the promise of fetchDailyStockData settles
fetchDailyStockData(response, zone) ==
    LET t == FetchTryBlock(response, zone)
    IN  IF t.threw THEN [state |-> "resolved", value |-> << >>]
        ELSE [state |-> "resolved", value |-> t.value]

\* mergeData(stockData)
mergeData(stockData, zone) ==
    [i \in 1..Len(stockData) |->
        [ date   |-> stockData[i].date,
          price  |-> <<stockData[i].close>>,
          volume |-> <<stockData[i].volume>> ]]

\* the time from the day i = k - 60 of the loop of generateMockData to
\* today: date.setDate(date.getDate() + i)
DaysBack == SubSeq([k \in 1..60 |-> Mul(TicksPerDay, k - 60)], 1, 60)

\* generateMockData(): the 60 days that end today, each at noon
generateMockData(today, zone) ==
    LET noon == LocalTime(toDateString(today, zone), 12, zone)
    IN  [k \in 1..60 |->
            [ date   |-> Add(noon, DaysBack[k]),
              price  |-> << >>,
              volume |-> << >> ]]

\* the state of ImmersiveDashboard after its first render, lines 297-302;
\* keyDown is the data.length in the closure of the handleKeyDown that is
\* registered on the window, none before the effects of the first render
Mounted(today, zone) ==
    [ data           |-> generateMockData(today, zone),
      selectedIndex  |-> 30,
      isLoading      |-> TRUE,
      selectedSymbol |-> "SPY",
      error          |-> "null",
      keyDown        |-> << >> ]

MaxLoads == 2

\* the events of a run of the dashboard
MaxLoadEvents == 4

\* the events of the loads so far: a load started, a load settled
LoadEvents == Len(loads) + Cardinality({i \in 1..Len(loads) : loads[i].pc = "done"})

\* loadData up to its await, lines 308-314, in a run of the effects that
\* leaves the handler of the length keyDown registered
LoadStarted(symbol, keyDown) ==
    /\ Len(loads) < MaxLoads
    /\ LoadEvents < MaxLoadEvents
    /\ dashboard' = [dashboard EXCEPT !.isLoading = TRUE, !.error = "null",
                                      !.selectedSymbol = symbol,
                                      !.keyDown = keyDown]
    /\ loads' = Append(loads, [ symbol    |-> symbol,
                                pc        |-> "pending",
                                response  |-> << >>,
                                stockData |-> << >> ])
    /\ UNCHANGED <<clock, tz, calcVars, sizeVars, insightVars, soundVars>>

\* the effects of the first render: loadData starts and handleKeyDown is
\* registered, lines 306-339 and 403-414
LoadDataOnMount ==
    /\ loads = << >>
    /\ LoadStarted(dashboard.selectedSymbol, <<Len(dashboard.data)>>)

\* onChange of the symbol selector, line 484, and the effect that the new
\* selectedSymbol runs
SymbolSelected(symbol) ==
    /\ loads # << >>
    /\ symbol # dashboard.selectedSymbol
    /\ LoadStarted(symbol, dashboard.keyDown)

\* loadData from its await on, lines 314-335: the request is answered by
\* response after the time wait
LoadDataSettles(i, response, wait) ==
    /\ i \in 1..Len(loads)
    /\ loads[i].pc = "pending"
    /\ LoadEvents < MaxLoadEvents
    /\ clock' = Add(clock, wait)
    /\ \E stockData \in {fetchDailyStockData(response, tz)},
          mockData \in {generateMockData(clock', tz)} :
           /\ loads' = [loads EXCEPT ![i] = [ symbol    |-> loads[i].symbol,
                                              pc        |-> "done",
                                              response  |-> <<response>>,
                                              stockData |-> <<stockData>> ]]
           /\ dashboard' =
                IF stockData.state = "rejected"
                THEN [dashboard EXCEPT !.error = "Error loading data - using demo",
                                       !.data = mockData,
                                       !.selectedIndex = Len(mockData) \div 2,
                                       !.isLoading = FALSE]
                ELSE IF Len(stockData.value) > 0
                THEN [dashboard EXCEPT !.data = mergeData(stockData.value, tz),
                                       !.selectedIndex = Len(stockData.value) - 1,
                                       !.isLoading = FALSE]
                ELSE [dashboard EXCEPT !.error = "Using demo data (API limit reached)",
                                       !.data = mockData,
                                       !.selectedIndex = Len(mockData) \div 2,
                                       !.isLoading = FALSE]
    /\ UNCHANGED <<tz, calcVars, sizeVars, insightVars, soundVars>>

\* Math.max(0, Math.min(length - 1, prev + direction))
Clamped(prev, direction, length) ==
    LET next == prev + direction
        min  == IF length - 1 < next THEN length - 1 ELSE next
    IN  IF min < 0 THEN 0 ELSE min

\* a navigation event has set the index
Navigated(index) ==
    /\ dashboard' = [dashboard EXCEPT !.selectedIndex = index]
    /\ UNCHANGED <<clock, loads, tz, calcVars, sizeVars, insightVars, soundVars>>

\* handleMoonWheel, lines 368-394, for an event that brings the accumulator
\* to the threshold: the handler of the last render, with its data.length
HandleMoonWheel(direction) ==
    Navigated(Clamped(dashboard.selectedIndex, direction, Len(dashboard.data)))

\* handleMoonTouchMove, lines 425-445, likewise
HandleMoonTouchMove(direction) ==
    Navigated(Clamped(dashboard.selectedIndex, direction, Len(dashboard.data)))

\* handleKeyDown, lines 403-409: the handler that is registered, with the
\* data.length of the render that registered it
HandleKeyDown(key) ==
    /\ dashboard.keyDown # << >>
    /\ Navigated(IF key = "ArrowLeft"
                 THEN (IF dashboard.selectedIndex - 1 < 0 THEN 0
                       ELSE dashboard.selectedIndex - 1)
                 ELSE (IF dashboard.keyDown[1] - 1 < dashboard.selectedIndex + 1
                       THEN dashboard.keyDown[1] - 1
                       ELSE dashboard.selectedIndex + 1))

\* the effect of lines 403-414 runs, some time after a render with another
\* data.length: the handler is replaced by the one of that render
KeyDownEffect ==
    /\ dashboard.keyDown # << >>
    /\ dashboard.keyDown # <<Len(dashboard.data)>>
    /\ dashboard' = [dashboard EXCEPT !.keyDown = <<Len(dashboard.data)>>]
    /\ UNCHANGED <<clock, loads, tz, calcVars, sizeVars, insightVars, soundVars>>

\* the symbols that the runs select, of STOCK_SYMBOLS
Symbols == {"SPY", "QQQ", "AAPL"}

\* "Time Series (Daily)" objects, the newest day first: none, the last two
\* days of April 2024, and the 61 days of March and April 2024
TimeSeriesOf(n) ==
    [i \in 1..n |->
        [ year   |-> 2024,
          month  |-> IF i <= 30 THEN 4 ELSE 3,
          day    |-> IF i <= 30 THEN 31 - i ELSE 62 - i,
          close  |-> 500 - i,
          volume |-> 1000 + i ]]

Answer(fetched, errorMessage, note, timeSeries) ==
    [ fetched      |-> fetched,
      errorMessage |-> errorMessage,
      note         |-> note,
      timeSeries   |-> timeSeries ]

\* what a request can meet: fetch rejects, response.json() rejects, or a
\* JSON object with or without each of the three properties
Responses ==
    { Answer("rejects", FALSE, FALSE, << >>),
      Answer("no json", FALSE, FALSE, << >>),
      Answer("json", TRUE, FALSE, << >>),
      Answer("json", TRUE, FALSE, <<TimeSeriesOf(2)>>),
      Answer("json", FALSE, TRUE, << >>),
      Answer("json", FALSE, FALSE, << >>),
      Answer("json", FALSE, FALSE, <<TimeSeriesOf(0)>>),
      Answer("json", FALSE, FALSE, <<TimeSeriesOf(2)>>),
      Answer("json", FALSE, FALSE, <<TimeSeriesOf(61)>>) }

\* a request takes a second or a day
Waits == {BigOf(1000 * 1000), TicksPerDay}

\* the first render: half an hour before a midnight of UTC, or at the epoch
\* of the calculator
InitStock ==
    /\ tz \in TimeZones
    /\ clock \in {DateUTC(2024, 4, 1, 23, 30, 0), KNOWN_NEW_MOON}
    /\ dashboard = Mounted(clock, tz)
    /\ loads = << >>
    /\ CalcIdle /\ SizeIdle /\ InsightIdle /\ SoundIdle

NextStock ==
    \/ LoadDataOnMount
    \/ \E symbol \in Symbols : SymbolSelected(symbol)
    \/ \E i \in 1..MaxLoads, response \in Responses, wait \in Waits :
            LoadDataSettles(i, response, wait)

SpecStock == InitStock /\ [][NextStock]_vars

\* the dashboard with its navigation, in one time zone and at one time
InitNavigate ==
    /\ tz = 0
    /\ clock = KNOWN_NEW_MOON
    /\ dashboard = Mounted(clock, tz)
    /\ loads = << >>
    /\ CalcIdle /\ SizeIdle /\ InsightIdle /\ SoundIdle

NextNavigate ==
    \/ LoadDataOnMount
    \/ \E symbol \in Symbols : SymbolSelected(symbol)
    \/ \E i \in 1..MaxLoads, response \in Responses, wait \in Waits :
            LoadDataSettles(i, response, wait)
    \/ \E direction \in {-1, 1} : HandleMoonWheel(direction)
    \/ \E direction \in {-1, 1} : HandleMoonTouchMove(direction)
    \/ \E key \in {"ArrowLeft", "ArrowRight"} : HandleKeyDown(key)
    \/ KeyDownEffect

SpecNavigate == InitNavigate /\ [][NextNavigate]_vars

---------------------------------------------------------------------------
(* CosmicSoundEngine (src/src/lib/sounds.ts): the volumes, the ambient     *)
(* soundscape and the background music.  A method is a function from the   *)
(* pair of the engine and the browser to the pair after the call.  Of the  *)
(* browser is carried what the engine started there: the oscillators that  *)
(* run, the teardown timers of stopAmbient that have not fired, and the    *)
(* promises of play() that have not settled.  ambientNodes.gains grows and *)
(* shrinks with ambientNodes.oscillators and is not carried.               *)

\* JavaScript numbers: the finite ones in hundredths, NaN and the infinities
Num(hundredths) == [kind |-> "finite", val |-> hundredths]

NaN == [kind |-> "NaN", val |-> 0]

PlusInfinity == [kind |-> "Infinity", val |-> 0]

MinusInfinity == [kind |-> "-Infinity", val |-> 0]

\* a < b for numbers other than NaN
LessThan(a, b) ==
    CASE a.kind = "-Infinity" -> b.kind # "-Infinity"
      [] a.kind = "Infinity"  -> FALSE
      [] a.kind = "finite"    ->
             b.kind = "Infinity" \/ (b.kind = "finite" /\ a.val < b.val)

\* Math.min(a, b): NaN if either is NaN
MathMin(a, b) ==
    IF a.kind = "NaN" \/ b.kind = "NaN" THEN NaN
    ELSE IF LessThan(b, a) THEN b ELSE a

\* Math.max(a, b): NaN if either is NaN
MathMax(a, b) ==
    IF a.kind = "NaN" \/ b.kind = "NaN" THEN NaN
    ELSE IF LessThan(a, b) THEN b ELSE a

\* Math.max(0, Math.min(1, vol))
Clamp(vol) == MathMax(Num(0), MathMin(Num(100), vol))

\* the oscillators that startAmbient pushes to ambientNodes.oscillators
AmbientOscillators == <<"drone1", "drone2", "pad", "lfo", "shimmer", "shimmerLfo">>

\* the fields of a new CosmicSoundEngine, lines 5-17
NewEngine ==
    [ audioContext     |-> FALSE,
      isEnabled        |-> TRUE,
      volume           |-> Num(30),
      ambientVolume    |-> Num(15),
      bgmVolume        |-> Num(30),
      isAmbientPlaying |-> FALSE,
      isBgmPlaying     |-> FALSE,
      bgmAudio         |-> << >>,
      ambientNodes     |-> [oscillators |-> << >>, masterGain |-> << >>] ]

\* nothing started in the browser
NewBrowser ==
    [ started     |-> {},
      soundscapes |-> 0,
      timers      |-> << >>,
      plays       |-> 0 ]

\* getContext(): the AudioContext is created at the first call
getContext(st) == [st EXCEPT !.engine.audioContext = TRUE]

\* startAmbient(), lines 66-189.  The ramp of the master gain to a volume
\* of NaN throws, before anything is stored.
startAmbient(st) ==
    IF ~st.engine.isEnabled \/ st.engine.isAmbientPlaying THEN st
    ELSE IF st.engine.ambientVolume.kind = "NaN" THEN getContext(st)
    ELSE LET g    == st.browser.soundscapes + 1
             oscs == [n \in 1..Len(AmbientOscillators) |->
                         [soundscape |-> g, name |-> AmbientOscillators[n]]]
         IN  [ engine  |-> [st.engine EXCEPT
                              !.audioContext = TRUE,
                              !.ambientNodes =
                                  [ oscillators |-> st.engine.ambientNodes.oscillators \o oscs,
                                    masterGain  |-> <<g>> ],
                              !.isAmbientPlaying = TRUE],
               browser |-> [st.browser EXCEPT
                              !.soundscapes = g,
                              !.started = @ \cup {oscs[n] : n \in 1..Len(oscs)}] ]

\* stopAmbient(), lines 191-215: the fade of the master gain of the moment
\* and the timer of 1100 ms
stopAmbient(st) ==
    IF ~st.engine.isAmbientPlaying THEN st
    ELSE [ engine  |-> [st.engine EXCEPT !.audioContext = TRUE],
           browser |-> [st.browser EXCEPT
                          !.timers = Append(@, [faded |-> st.engine.ambientNodes.masterGain])] ]

\* the callback of the timer of stopAmbient, lines 203-211
teardown(st) ==
    [ engine  |-> [st.engine EXCEPT
                     !.ambientNodes = [oscillators |-> << >>, masterGain |-> << >>],
                     !.isAmbientPlaying = FALSE],
      browser |-> [st.browser EXCEPT
                     !.started = @ \ {st.engine.ambientNodes.oscillators[n] :
                                        n \in 1..Len(st.engine.ambientNodes.oscillators)},
                     !.timers = Tail(@)] ]

\* startBgm(), lines 227-244.  The Audio element is created paused and with
\* volume 1; the assignment of a volume of NaN throws.  play() of an element
\* that is not allowed to play returns a rejected promise and leaves it
\* paused; otherwise the element is no longer paused and the promise pending.
startBgm(st, allowed) ==
    IF ~st.engine.isEnabled \/ st.engine.isBgmPlaying THEN st
    ELSE IF st.engine.bgmAudio = << >> /\ st.engine.bgmVolume.kind = "NaN"
    THEN [st EXCEPT !.engine.bgmAudio = <<[paused |-> TRUE, volume |-> Num(100)]>>]
    ELSE LET audio == IF st.engine.bgmAudio = << >>
                      THEN [paused |-> TRUE, volume |-> st.engine.bgmVolume]
                      ELSE st.engine.bgmAudio[1]
         IN  IF allowed
             THEN [ engine  |-> [st.engine EXCEPT
                                   !.bgmAudio = <<[audio EXCEPT !.paused = FALSE]>>],
                    browser |-> [st.browser EXCEPT !.plays = @ + 1] ]
             ELSE [st EXCEPT !.engine.bgmAudio = <<audio>>]

\* stopBgm(), lines 246-256: pause() also rejects the pending promises
stopBgm(st) ==
    IF st.engine.bgmAudio = << >> \/ ~st.engine.isBgmPlaying THEN st
    ELSE [ engine  |-> [st.engine EXCEPT
                          !.bgmAudio = <<[st.engine.bgmAudio[1] EXCEPT !.paused = TRUE]>>,
                          !.isBgmPlaying = FALSE],
           browser |-> [st.browser EXCEPT !.plays = 0] ]

\* setEnabled(enabled), lines 30-36
setEnabled(st, enabled) ==
    LET set == [st EXCEPT !.engine.isEnabled = enabled]
    IN  IF ~enabled THEN stopBgm(stopAmbient(set)) ELSE set

\* setVolume(vol), lines 38-40
setVolume(st, vol) == [st EXCEPT !.engine.volume = Clamp(vol)]

\* setAmbientVolume(vol), lines 42-47; the value of the gain is not carried
setAmbientVolume(st, vol) == [st EXCEPT !.engine.ambientVolume = Clamp(vol)]

\* setBgmVolume(vol), lines 268-273: the assignment of NaN to the volume of
\* the element throws and leaves it as it was
setBgmVolume(st, vol) ==
    IF st.engine.bgmAudio = << >> \/ Clamp(vol).kind = "NaN"
    THEN [st EXCEPT !.engine.bgmVolume = Clamp(vol)]
    ELSE [st EXCEPT !.engine.bgmVolume = Clamp(vol),
                    !.engine.bgmAudio = <<[st.engine.bgmAudio[1] EXCEPT !.volume = Clamp(vol)]>>]

\* toggleAmbient(), lines 217-224
toggleAmbient(st) ==
    IF st.engine.isAmbientPlaying THEN stopAmbient(st) ELSE startAmbient(st)

\* toggleBgm(), lines 259-266
toggleBgm(st, allowed) ==
    IF st.engine.isBgmPlaying THEN stopBgm(st) ELSE startBgm(st, allowed)

\* the soundscapes, the timers and the pending play() calls of a run
MaxSoundscapes == 2
MaxTimers == 2
MaxPlays == 1

\* the engine and the browser now
Sound == [engine |-> engine, browser |-> browser]

\* a method of the engine is called and returns st; the bounds of the run
Called(st) ==
    /\ st.browser.soundscapes <= MaxSoundscapes
    /\ Len(st.browser.timers) <= MaxTimers
    /\ st.browser.plays <= MaxPlays
    /\ engine' = st.engine
    /\ browser' = st.browser
    /\ UNCHANGED <<calcVars, tz, sizeVars, insightVars, stockVars>>

SetEnabled(enabled) == Called(setEnabled(Sound, enabled))

SetVolume(vol) == Called(setVolume(Sound, vol))

SetAmbientVolume(vol) == Called(setAmbientVolume(Sound, vol))

SetBgmVolume(vol) == Called(setBgmVolume(Sound, vol))

StartAmbient == Called(startAmbient(Sound))

StopAmbient == Called(stopAmbient(Sound))

ToggleAmbient == Called(toggleAmbient(Sound))

StartBgm(allowed) == Called(startBgm(Sound, allowed))

StopBgm == Called(stopBgm(Sound))

ToggleBgm(allowed) == Called(toggleBgm(Sound, allowed))

\* the oldest timer of stopAmbient fires: the timers have one delay and fire
\* in the order of their calls
TeardownFires ==
    /\ browser.timers # << >>
    /\ Called(teardown(Sound))

\* the pending promises of play() settle, together: fulfilled when the
\* playback has started, rejected when /bgm.mp3 cannot be played
PlaySettles(fulfilled) ==
    /\ browser.plays > 0
    /\ engine' = IF fulfilled THEN [engine EXCEPT !.isBgmPlaying = TRUE] ELSE engine
    /\ browser' = [browser EXCEPT !.plays = 0]
    /\ UNCHANGED <<calcVars, tz, sizeVars, insightVars, stockVars>>

\* the arguments of the setters: NaN, the infinities, a number below 0, one
\* within [0, 1] and one above 1
Volumes == {NaN, MinusInfinity, Num(-50), Num(50), Num(150), PlusInfinity}

InitSound ==
    /\ engine = NewEngine
    /\ browser = NewBrowser
    /\ tz = 0
    /\ CalcIdle /\ SizeIdle /\ InsightIdle /\ StockIdle

NextSound ==
    \/ \E enabled \in BOOLEAN : SetEnabled(enabled)
    \/ \E vol \in Volumes : SetVolume(vol)
    \/ \E vol \in Volumes : SetAmbientVolume(vol)
    \/ \E vol \in Volumes : SetBgmVolume(vol)
    \/ StartAmbient
    \/ StopAmbient
    \/ ToggleAmbient
    \/ \E allowed \in BOOLEAN : StartBgm(allowed)
    \/ StopBgm
    \/ \E allowed \in BOOLEAN : ToggleBgm(allowed)
    \/ TeardownFires
    \/ \E fulfilled \in BOOLEAN : PlaySettles(fulfilled)

SpecSound == InitSound /\ [][NextSound]_vars

---------------------------------------------------------------------------
(* Properties.  out[i] is calculateMoonPhase(dates[i]).                    *)

Computed == 1..Len(out)

\* the dates of the array are spaced exactly `stride` apart
Spaced(stride) ==
    \A i \in 1..(Len(dates) - 1) : dates[i + 1] = Add(dates[i], stride)

\* 2024-01-11T11:57:00Z, the reference new moon
ReferenceEpoch == DateUTC(2024, 0, 11, 11, 57, 0)

\* 2024-01-01T00:00:00Z, the zodiac reference date
ZodiacReference == DateUTC(2024, 0, 1, 0, 0, 0)

SignNames ==
    { "Aries", "Taurus", "Gemini", "Cancer", "Leo", "Virgo",
      "Libra", "Scorpio", "Sagittarius", "Capricorn", "Aquarius", "Pisces" }

\* C1: for every input date, before the zodiac reference date and centuries
\* away included, the zodiac field is one of the 12 sign names, never
\* undefined.
C1_ZodiacIsASign == \A i \in Computed : out[i].zodiac \in SignNames

\* C2: for every input date, every date strictly before the reference new
\* moon included, 0 <= age < 29.53058867 days.
C2_AgeInRange ==
    \A i \in Computed :
        /\ Leq(Zero, out[i].age)
        /\ Less(out[i].age, Days(29, 53058867))

\* a date strictly before the reference new moon has been given a non-zero age
C2_Witness ==
    \E i \in Computed :
        /\ Less(dates[i], ReferenceEpoch)
        /\ Less(Zero, out[i].age)

\* C3: for every input date, before or after the epoch, the distance lies in
\* the closed interval [356500, 406700] km.
C3_DistanceInRange ==
    \A i \in Computed :
        /\ 356500 * Scale <= out[i].distance
        /\ out[i].distance <= 406700 * Scale

\* a date before the epoch lies in the upper half of the interval and a date
\* after it in the lower half
C3_Witness ==
    /\ \E i \in Computed :
           Less(dates[i], ReferenceEpoch) /\ out[i].distance > 400000 * Scale
    /\ \E i \in Computed :
           Less(ReferenceEpoch, dates[i]) /\ out[i].distance < 360000 * Scale

\* C4: for every input date the illumination lies in the closed interval
\* [0, 100].
C4_IlluminationInRange ==
    \A i \in Computed :
        /\ 0 <= out[i].illumination
        /\ out[i].illumination <= 100 * Scale

\* a date before the epoch has been given an illumination above 99 and
\* another one below 1
C4_Witness ==
    /\ \E i \in Computed :
           Less(dates[i], ReferenceEpoch) /\ out[i].illumination > 99 * Scale
    /\ \E i \in Computed :
           Less(dates[i], ReferenceEpoch) /\ out[i].illumination < Scale

\* C5: for every input date phase = age / 29.53058867 (to the resolution
\* 1 / Scale of the phase) and 0 <= phase < 1.
C5_PhaseIsAgeOverCycle ==
    \A i \in Computed :
        /\ 0 <= out[i].phase
        /\ out[i].phase < Scale
        /\ Leq(Mul(Days(29, 53058867), out[i].phase), Mul(out[i].age, Scale))
        /\ Less(Mul(out[i].age, Scale), Mul(Days(29, 53058867), out[i].phase + 1))

\* a date before the epoch has been given a phase in the last hundredth of
\* the cycle
C5_Witness ==
    \E i \in Computed :
        /\ Less(dates[i], ReferenceEpoch)
        /\ out[i].phase * 100 >= 99 * Scale

PhaseNames ==
    { "New Moon", "Waxing Crescent", "First Quarter", "Waxing Gibbous",
      "Full Moon", "Waning Gibbous", "Last Quarter", "Waning Crescent" }

\* lo/16 <= p < hi/16
InBin(p, lo, hi) == lo * Scale <= 16 * p /\ 16 * p < hi * Scale

\* C6: phaseName is the bucketing of phase into 8 bins of width 1/8: New Moon
\* for phase < 1/16 or phase >= 15/16, then Waxing Crescent [1/16, 3/16),
\* First Quarter [3/16, 5/16), Waxing Gibbous [5/16, 7/16), Full Moon
\* [7/16, 9/16), Waning Gibbous [9/16, 11/16), Last Quarter [11/16, 13/16),
\* Waning Crescent [13/16, 15/16); every phase maps to exactly one name.
C6_PhaseNameIsBucket ==
    \A i \in Computed :
        LET p == out[i].phase
            n == out[i].phaseName
        IN  /\ n \in PhaseNames
            /\ (n = "New Moon") <=> (InBin(p, 0, 1) \/ InBin(p, 15, 16))
            /\ (n = "Waxing Crescent") <=> InBin(p, 1, 3)
            /\ (n = "First Quarter") <=> InBin(p, 3, 5)
            /\ (n = "Waxing Gibbous") <=> InBin(p, 5, 7)
            /\ (n = "Full Moon") <=> InBin(p, 7, 9)
            /\ (n = "Waning Gibbous") <=> InBin(p, 9, 11)
            /\ (n = "Last Quarter") <=> InBin(p, 11, 13)
            /\ (n = "Waning Crescent") <=> InBin(p, 13, 15)

\* all 8 names have been produced, each of them for a phase exactly on the
\* lower edge of its bin
C6_Witness ==
    \A k \in 0..7 :
        \E i \in Computed :
            16 * out[i].phase = ((2 * k + 15) % 16) * Scale

\* C7: for every date t, on either side of the epoch, calculateMoonPhase(t)
\* and calculateMoonPhase(t + 29.53058867 days) have equal phase and equal
\* phaseName.
C7_Periodicity ==
    \A i \in Computed :
        (i + 1 \in Computed /\ dates[i + 1] = Add(dates[i], Days(29, 53058867)))
            => /\ out[i + 1].phase = out[i].phase
               /\ out[i + 1].phaseName = out[i].phaseName

\* t lies before the epoch, t + 29.53058867 days after it, both are computed
\* and the phase is not that of the new moon
C7_Witness ==
    \E i \in Computed :
        /\ i + 1 \in Computed
        /\ dates[i + 1] = Add(dates[i], Days(29, 53058867))
        /\ Less(dates[i], ReferenceEpoch)
        /\ Less(ReferenceEpoch, dates[i + 1])
        /\ out[i].phaseName # "New Moon"

SignOrder ==
    << "Aries", "Taurus", "Gemini", "Cancer", "Leo", "Virgo",
       "Libra", "Scorpio", "Sagittarius", "Capricorn", "Aquarius", "Pisces" >>

\* b follows a in the cyclic order of the signs
Follows(a, b) ==
    \E k \in 1..12 : SignOrder[k] = a /\ SignOrder[(k % 12) + 1] = b

\* the first n results are signs in cyclic order (so each of 12 consecutive
\* ones occurs exactly once)
InCyclicOrder(n) ==
    /\ \A i \in 1..n : out[i].zodiac \in SignNames
    /\ \A i \in 1..(n - 1) : Follows(out[i].zodiac, out[i + 1].zodiac)

C9_NewMoonAtEpoch ==
    \A i \in Computed :
        dates[i] = ReferenceEpoch
            => /\ out[i].age = Zero
               /\ out[i].phase = 0
               /\ out[i].phaseName = "New Moon"

\* the reference epoch has been computed
C9_Witness == \E i \in Computed : dates[i] = ReferenceEpoch

\* the date is the reference epoch plus half the synodic period
AtHalfCycle(date) ==
    Add(date, date) = Add(Add(ReferenceEpoch, ReferenceEpoch), Days(29, 53058867))

\* the date is the reference epoch plus 14.765 days
AtFullMoonExample(date) == date = Add(ReferenceEpoch, Days(14, 76500000))

\* C10: at the reference epoch plus half the synodic period, and at the epoch
\* plus 14.765 days, phaseName is "Full Moon" and the illumination is within
\* 0.01 of 100, the maximum of the illumination function.
C10_FullMoonAtHalfCycle ==
    \A i \in Computed :
        (AtHalfCycle(dates[i]) \/ AtFullMoonExample(dates[i]))
            => /\ out[i].phaseName = "Full Moon"
               /\ 9999 * Scale <= 100 * out[i].illumination
               /\ out[i].illumination <= 100 * Scale

\* both dates have been computed
C10_Witness ==
    /\ \E i \in Computed : AtHalfCycle(dates[i])
    /\ \E i \in Computed : AtFullMoonExample(dates[i])

\* C11: for every input date, moonName is non-null only when phaseName is
\* "Full Moon"; for each of the other 7 phase names moonName is null.
C11_MoonNameOnlyAtFullMoon ==
    \A i \in Computed :
        /\ out[i].moonName # "null" => out[i].phaseName = "Full Moon"
        /\ out[i].phaseName \in PhaseNames \ {"Full Moon"}
               => out[i].moonName = "null"

\* all 8 phase names have been produced: each of the 7 others with a null
\* moonName, "Full Moon" with a name
C11_Witness ==
    /\ \A n \in PhaseNames \ {"Full Moon"} :
           \E i \in Computed : out[i].phaseName = n /\ out[i].moonName = "null"
    /\ \E i \in Computed :
           out[i].phaseName = "Full Moon" /\ out[i].moonName # "null"

\* the records that have been classified
Classified == 1..Len(sizes)

\* C12: isSupermoon(record) is true if and only if record.phaseName is
\* "Full Moon" and record.distance < 360000, strictly: false for every other
\* phase at any distance and false at a distance of exactly 360000.
C12_SupermoonIffFullAndNear ==
    \A i \in Classified :
        /\ sizes[i].isSupermoon
               <=> (moons[i].phaseName = "Full Moon" /\ moons[i].distance < 360000 * Scale)
        /\ moons[i].phaseName # "Full Moon" => ~sizes[i].isSupermoon
        /\ moons[i].distance = 360000 * Scale => ~sizes[i].isSupermoon

\* a Full Moon just below 360000 is a supermoon, a Full Moon at exactly
\* 360000 is none, and neither is a record of another phase below 360000
C12_Witness ==
    /\ \E i \in Classified :
           /\ moons[i].phaseName = "Full Moon"
           /\ moons[i].distance = 360000 * Scale - 1
           /\ sizes[i].isSupermoon
    /\ \E i \in Classified :
           /\ moons[i].phaseName = "Full Moon"
           /\ moons[i].distance = 360000 * Scale
           /\ ~sizes[i].isSupermoon
    /\ \E i \in Classified :
           /\ moons[i].phaseName # "Full Moon"
           /\ moons[i].distance < 360000 * Scale
           /\ ~sizes[i].isSupermoon

\* C13: isMicromoon(record) is true if and only if record.phaseName is
\* "Full Moon" and record.distance > 400000, strictly: false for every other
\* phase at any distance and false at a distance of exactly 400000.
C13_MicromoonIffFullAndFar ==
    \A i \in Classified :
        /\ sizes[i].isMicromoon
               <=> (moons[i].phaseName = "Full Moon" /\ moons[i].distance > 400000 * Scale)
        /\ moons[i].phaseName # "Full Moon" => ~sizes[i].isMicromoon
        /\ moons[i].distance = 400000 * Scale => ~sizes[i].isMicromoon

\* a Full Moon just above 400000 is a micromoon, a Full Moon at exactly
\* 400000 is none, and neither is a record of another phase above 400000
C13_Witness ==
    /\ \E i \in Classified :
           /\ moons[i].phaseName = "Full Moon"
           /\ moons[i].distance = 400000 * Scale + 1
           /\ sizes[i].isMicromoon
    /\ \E i \in Classified :
           /\ moons[i].phaseName = "Full Moon"
           /\ moons[i].distance = 400000 * Scale
           /\ ~sizes[i].isMicromoon
    /\ \E i \in Classified :
           /\ moons[i].phaseName # "Full Moon"
           /\ moons[i].distance > 400000 * Scale
           /\ ~sizes[i].isMicromoon

\* the non-negative anomalistic fraction
\* f = (((d mod 27.55) + 27.55) mod 27.55) / 27.55 of the days d elapsed
\* since the reference epoch
AnomalisticFraction(date) ==
    LET d == Sub(date, ReferenceEpoch)
        m == Days(27, 55000000)
    IN  FloorDiv(Mul(JSMod(Add(JSMod(d, m), m), m), Scale), m)

\* perigee + (1 - cos(2 pi f)) / 2 * (apogee - perigee)
DistanceFormula(f) ==
    356500 * Scale + ((Scale - cosTurns(f)) * (406700 - 356500)) \div 2

\* C14: for every input date, dates before the epoch (negative elapsed days)
\* included, the distance equals perigee + (1 - cos(2 pi f)) / 2 *
\* (apogee - perigee) for the non-negative anomalistic fraction f, with
\* perigee 356500 and apogee 406700.
C14_DistanceIsFormula ==
    \A i \in Computed :
        /\ AnomalisticFraction(dates[i]) \in 0..(Scale - 1)
        /\ out[i].distance = DistanceFormula(AnomalisticFraction(dates[i]))

\* a date before the epoch, for which the code's own fraction
\* (d % 27.55) / 27.55 is negative, has been given a distance strictly
\* between perigee and apogee
C14_Witness ==
    \E i \in Computed :
        /\ Less(dates[i], ReferenceEpoch)
        /\ anomalisticPhase(daysSinceNewMoon(dates[i])) < 0
        /\ out[i].distance > 356500 * Scale
        /\ out[i].distance < 406700 * Scale

\* the number k of the last new-moon instant epoch + k * 29.53058867 days
\* that is not after the date
CycleOf(date) == FloorDiv(Sub(date, ReferenceEpoch), Days(29, 53058867))

\* no new-moon instant lies in (t1, t2]
SameCycle(t1, t2) == CycleOf(t1) = CycleOf(t2)

\* t2 - t1 is at least one step 29.53058867 / Scale days of the phase
AStepApart(t1, t2) == Leq(Days(29, 53058867), Mul(Sub(t2, t1), Scale))

\* C15: for two dates t1 < t2 of the same synodic cycle phase(t1) < phase(t2):
\* the age, of which the phase is the 29.53058867th part, is strictly
\* greater at t2, and the phase, carried to 1 / Scale, is not smaller at t2
\* and greater once t2 - t1 reaches its resolution; the phase decreases only
\* across a cycle boundary.
C15_PhaseMonotonicWithinCycle ==
    \A i, j \in Computed :
        Less(dates[i], dates[j])
            => /\ SameCycle(dates[i], dates[j])
                    => /\ Less(out[i].age, out[j].age)
                       /\ out[i].phase <= out[j].phase
                       /\ AStepApart(dates[i], dates[j])
                              => out[i].phase < out[j].phase
               /\ out[j].phase < out[i].phase
                    => ~SameCycle(dates[i], dates[j])

\* before the epoch: two dates of one cycle with increasing phase and two
\* dates on either side of a new moon with decreasing phase
C15_Witness ==
    /\ \E i, j \in Computed :
           /\ Less(dates[i], dates[j])
           /\ Less(dates[j], ReferenceEpoch)
           /\ SameCycle(dates[i], dates[j])
           /\ out[i].phase < out[j].phase
    /\ \E i, j \in Computed :
           /\ Less(dates[i], dates[j])
           /\ Less(dates[j], ReferenceEpoch)
           /\ ~SameCycle(dates[i], dates[j])
           /\ out[j].phase < out[i].phase

\* C16: the record is determined by the input date alone: a call with the
\* same date returns a record equal in every field (phase, age, phaseName,
\* illumination, distance, zodiac, moonName) whatever the ambient state, here
\* the time zone of the environment, is.
C16_DeterminedByDateAlone ==
    \A i \in Computed :
        \A zone \in TimeZones : calculateMoonPhase(dates[i], zone) = out[i]

\* the text of the fallback insight of a phase name: that of "Full Moon" for
\* a name that is none of the 8
FallbackText(phaseName) ==
    IF phaseName \in PhaseNames THEN insights[phaseName] ELSE insights["Full Moon"]

\* C17: generateLunarInsight never rejects: whenever the HTTP call ends in
\* anything but a content, the promise resolves to the fallback text of the
\* phase name, the text of "Full Moon" for a name that is none of the 8; the
\* result is always a non-empty string.
C17_FallbackOnEveryFailure ==
    \A i \in 1..Len(calls) :
        /\ calls[i].pc \in {"pending", "resolved"}
        /\ calls[i].pc = "resolved"
              => /\ calls[i].result.type = "string"
                 /\ calls[i].result.text # ""
                 /\ calls[i].outcome # "content"
                       => calls[i].result.text = FallbackText(calls[i].args.phaseName)

\* the key of a call: its phase name, its stock symbol and the calendar day
\* of its date
KeyOf(args) ==
    [ phaseName   |-> args.phaseName,
      stockSymbol |-> args.stockSymbol,
      dateString  |-> toDateString(args.date, tz) ]

\* an entry is stored under the key and was stored less than 300000 ms
\* before the time
StoredWithin5Minutes(key, time) ==
    /\ key \in DOMAIN insightCache
    /\ time - insightCache[key].timestamp < 300000

\* a step in which getCachedInsight is called: with a fresh entry under its
\* key the call returns the stored insight and issues no request; without
\* one it issues one request; the cache is as it was
C18_CallStep ==
    Len(calls') = Len(calls) + 1
        => LET c == calls'[Len(calls')]
           IN  /\ insightCache' = insightCache
               /\ StoredWithin5Minutes(KeyOf(c.args), now')
                     => /\ c.pc = "resolved"
                        /\ c.result = insightCache[KeyOf(c.args)].insight
                        /\ c.requests = 0
               /\ ~StoredWithin5Minutes(KeyOf(c.args), now')
                     => /\ c.pc = "pending"
                        /\ c.requests = 1

\* a step in which a pending call returns: it has issued its one request,
\* and the entry under its key is the insight it returns with the time of
\* the step; a call that has returned issues nothing more
C18_ReturnStep ==
    \A i \in 1..Len(calls) :
        /\ (calls[i].pc = "pending" /\ calls'[i].pc = "resolved")
              => /\ calls'[i].requests = 1
                 /\ KeyOf(calls[i].args) \in DOMAIN insightCache'
                 /\ insightCache'[KeyOf(calls[i].args)]
                        = [insight |-> calls'[i].result, timestamp |-> now']
        /\ calls[i].pc = "resolved" => calls'[i] = calls[i]

\* C18: getCachedInsight keeps insights for 5 minutes: a call whose key
\* (phaseName, stockSymbol, calendar day of date) has an entry stored less
\* than 300000 ms ago returns that insight and issues no API request; a call
\* whose entry is absent or at least 300000 ms old issues exactly one API
\* request and replaces the entry with the new insight and a new timestamp.
C18_CachedForFiveMinutes == [][C18_CallStep /\ C18_ReturnStep]_vars

\* three calls with one key: the first found no entry, issued a request and
\* has stored its insight; the second was served that insight without a
\* request; the third is made exactly 300000 ms after the entry was stored
\* and has issued a request
C18_Witness ==
    /\ Len(calls) = 3
    /\ KeyOf(calls[1].args) = KeyOf(calls[2].args)
    /\ KeyOf(calls[1].args) = KeyOf(calls[3].args)
    /\ calls[1].pc = "resolved" /\ calls[1].requests = 1
    /\ calls[2].pc = "resolved" /\ calls[2].requests = 0
    /\ calls[2].result = calls[1].result
    /\ calls[3].pc = "pending" /\ calls[3].requests = 1
    /\ KeyOf(calls[3].args) \in DOMAIN insightCache
    /\ insightCache[KeyOf(calls[3].args)].insight = calls[1].result
    /\ now - insightCache[KeyOf(calls[3].args)].timestamp = 300000

\* the four values the insight is asked for besides the parts of the key
DataOf(a) == <<a.stockPrice, a.priceChange, a.illumination, a.zodiac>>

\* C19: the cache is cleared when relevant data changes: after the stock
\* price, the price change, the illumination or the zodiac passed for a
\* phase, symbol and day has changed, getCachedInsight does not return the
\* insight generated from the earlier values: an insight of the API that a
\* call returns was asked for with the values of that call.
C19_NoInsightOfEarlierValues ==
    \A i \in 1..Len(calls) :
        (calls[i].pc = "resolved" /\ calls[i].result.text = "reply")
            => DataOf(calls[i].result.prompt) = DataOf(calls[i].args)


\* Properties of fetchDailyStockData and loadData.

\* the response is one of the failures of C20
Failing(response) ==
    \/ response.fetched # "json"
    \/ response.errorMessage
    \/ response.note
    \/ response.timeSeries = << >>

\* data is the mock data set of the day of the clock: 60 days that end
\* today, each at noon, none with a volume
MockDataOf(data, today, zone) ==
    LET day == toDateString(today, zone)
    IN  /\ Len(data) = 60
        /\ data[60].date = LocalTime(day, 12, zone)
        /\ \A k \in 1..59 : Add(data[k].date, TicksPerDay) = data[k + 1].date
        /\ \A k \in 1..60 : data[k].volume = << >>

C20_Settled(i) ==
    /\ i <= Len(loads)
    /\ loads[i].pc = "pending"
    /\ loads'[i].pc = "done"

\* C20: fetchDailyStockData never rejects; when the response carries an
\* "Error Message", a rate-limit "Note", no "Time Series (Daily)" object, or
\* when fetch or the JSON parsing throws, it resolves to the empty array, and
\* the dashboard then holds the 60-day mock data set, shows an error notice
\* and is no longer loading.
C20_FailuresGiveMockData ==
    [][\A i \in 1..MaxLoads :
          C20_Settled(i) =>
             /\ loads'[i].stockData[1].state = "resolved"
             /\ Failing(loads'[i].response[1]) =>
                   /\ loads'[i].stockData[1].value = << >>
                   /\ MockDataOf(dashboard'.data, clock', tz)
                   /\ dashboard'.error # "null"
                   /\ dashboard'.isLoading = FALSE]_vars

\* a load has met a fetch that rejects and a later one the note of the rate
\* limit: both resolved to the empty array, and the dashboard shows the mock
\* data with its notice
C20_Witness ==
    /\ Len(loads) = 2
    /\ loads[1].pc = "done" /\ loads[2].pc = "done"
    /\ loads[1].response[1].fetched = "rejects"
    /\ loads[2].response[1].note
    /\ loads[1].stockData[1] = [state |-> "resolved", value |-> << >>]
    /\ loads[2].stockData[1] = [state |-> "resolved", value |-> << >>]
    /\ MockDataOf(dashboard.data, clock, tz)
    /\ dashboard.error = "Using demo data (API limit reached)"


\* the response is a success: a JSON object with a series and neither an
\* "Error Message" nor a "Note"
Succeeding(response) ==
    /\ response.fetched = "json"
    /\ ~response.errorMessage
    /\ ~response.note
    /\ response.timeSeries # << >>

\* the dates of the series that the API returned
SeriesDates(response, zone) ==
    {ParseDate(response.timeSeries[1][j], zone) : j \in 1..Len(response.timeSeries[1])}

\* points are the most recent ones of the series: as many as the series
\* has, up to 60, in strictly ascending order of date, each a day of the
\* series with its close and volume, and no day of the series that is left
\* out is later than a day that is returned
HistoryOf(points, response, zone) ==
    LET series == response.timeSeries[1]
        n      == Len(points)
        given  == {points[k].date : k \in 1..n}
    IN  /\ n <= 60
        /\ n = IF Len(series) <= 60 THEN Len(series) ELSE 60
        /\ \A k \in 1..(n - 1) : Less(points[k].date, points[k + 1].date)
        /\ \A k \in 1..n :
              \E j \in 1..Len(series) :
                 /\ points[k].date = ParseDate(series[j], zone)
                 /\ points[k].close = series[j].close
                 /\ points[k].volume = series[j].volume
        /\ \A old \in SeriesDates(response, zone) \ given :
              \A new \in given : Less(old, new)

InitialLoadCompletes ==
    /\ Len(loads) = 1
    /\ loads[1].pc = "pending"
    /\ loads'[1].pc = "done"

\* C22: when the initial load completes, in any outcome, the selected index
\* points at the latest entry of the data set (today's entry when the mock
\* data is used): selectedIndex = data.length - 1.
C22_LatestEntrySelectedOnLoad ==
    [][InitialLoadCompletes =>
          dashboard'.selectedIndex = Len(dashboard'.data) - 1]_vars


\* the fraction from which calculateMoonPhase interpolates the distance of
\* the date
CodeFraction(date) == anomalisticPhase(daysSinceNewMoon(date))

\* C23 as stated: the anomalistic fraction from which calculateMoonPhase
\* interpolates the distance lies in [0, 1) for every date, dates before the
\* reference epoch included.
C23_FractionInUnitInterval ==
    \A i \in Computed : CodeFraction(dates[i]) \in 0..(Scale - 1)

\* the date is before the epoch and not a whole number of anomalistic months
\* before it
BeforeEpochOffCycle(date) ==
    /\ Less(date, ReferenceEpoch)
    /\ JSMod(Sub(date, ReferenceEpoch), Days(27, 55000000)) # Zero

\* C23, amended: the fraction is the remainder of a single mod and takes the
\* sign of the elapsed days.  From the epoch on it is the non-negative
\* fraction f in [0, 1); before the epoch it is f - 1, in (-1, 0) (and 0 a
\* whole number of anomalistic months before the epoch).  The distance is
\* that of f for every date.
C23_FractionTakesSignOfElapsedDays ==
    \A i \in Computed :
        /\ AnomalisticFraction(dates[i]) \in 0..(Scale - 1)
        /\ CodeFraction(dates[i]) =
              IF BeforeEpochOffCycle(dates[i])
              THEN AnomalisticFraction(dates[i]) - Scale
              ELSE AnomalisticFraction(dates[i])
        /\ out[i].distance = DistanceFormula(AnomalisticFraction(dates[i]))
        /\ out[i].distance = DistanceFormula(CodeFraction(dates[i]))

\* a date before the epoch has a negative fraction, one whole turn below the
\* non-negative one, and a date after the epoch a positive fraction
C23_Witness ==
    /\ \E i \in Computed :
          /\ BeforeEpochOffCycle(dates[i])
          /\ CodeFraction(dates[i]) < 0
          /\ CodeFraction(dates[i]) = AnomalisticFraction(dates[i]) - Scale
    /\ \E i \in Computed :
          /\ Less(ReferenceEpoch, dates[i])
          /\ CodeFraction(dates[i]) > 0


\* the name of each calendar month, January first
NameOfMonth ==
    << "Wolf Moon", "Snow Moon", "Worm Moon", "Pink Moon", "Flower Moon",
       "Strawberry Moon", "Buck Moon", "Sturgeon Moon", "Harvest Moon",
       "Hunter's Moon", "Beaver Moon", "Cold Moon" >>

\* C24: whenever phaseName is "Full Moon", moonName is non-null: every
\* full-moon date gets exactly the name of its calendar month, for each of
\* the 12 months 0-11 (month 8 gives "Harvest Moon").
C24_EveryFullMoonIsNamed ==
    \A i \in Computed :
        out[i].phaseName = "Full Moon" =>
            /\ out[i].moonName # "null"
            /\ getMonth(dates[i], tz) \in 0..11
            /\ out[i].moonName = NameOfMonth[getMonth(dates[i], tz) + 1]

\* full moons of all 12 calendar months have been named, the one of month 8
\* "Harvest Moon"
C24_Witness ==
    /\ \A m \in 0..11 :
          \E i \in Computed :
             /\ out[i].phaseName = "Full Moon"
             /\ getMonth(dates[i], tz) = m
             /\ out[i].moonName = NameOfMonth[m + 1]
    /\ \E i \in Computed :
          /\ out[i].phaseName = "Full Moon"
          /\ getMonth(dates[i], tz) = 8
          /\ out[i].moonName = "Harvest Moon"


\* Properties of getCachedInsight under overlap and after a failure.

\* the calls made with the key
CallsOf(key) == {i \in 1..Len(calls) : KeyOf(calls[i].args) = key}

\* C25: for any interleaving of getCachedInsight calls with the same key, a
\* second call that starts while the first is still awaiting the API
\* included, at most one API request is issued for that key within a
\* 5-minute window, and the cache entry ends up holding the insight that all
\* those calls returned.  (All the calls of a state with now < 300000 were
\* made within one 5-minute window.)
C25_OneRequestPerKeyUnderOverlap ==
    now < 300000 =>
        \A i \in 1..Len(calls) :
            LET same == CallsOf(KeyOf(calls[i].args))
            IN  /\ Cardinality({j \in same : calls[j].requests = 1}) <= 1
                /\ (\A j \in same : calls[j].pc = "resolved") =>
                      \A j \in same :
                          calls[j].result = insightCache[KeyOf(calls[i].args)].insight


\* the i-th call issued a request and has returned the fallback text of its
\* phase name: its request failed
FailedRequest(i) ==
    /\ calls[i].pc = "resolved"
    /\ calls[i].requests = 1
    /\ calls[i].result = Str(FallbackText(calls[i].args.phaseName))

\* the earlier calls with the key of the call c whose request failed
FailedBefore(c) ==
    {i \in 1..Len(calls) : KeyOf(calls[i].args) = KeyOf(c.args) /\ FailedRequest(i)}

InUnitInterval(x) == x.kind = "finite" /\ x.val >= 0 /\ x.val <= 100

\* C27: in every reachable state of CosmicSoundEngine, after any sequence of
\* setVolume, setAmbientVolume and setBgmVolume calls with arbitrary numeric
\* arguments, volume, ambientVolume and bgmVolume each lie in [0, 1].
C27_VolumesInUnitInterval ==
    /\ InUnitInterval(engine.volume)
    /\ InUnitInterval(engine.ambientVolume)
    /\ InUnitInterval(engine.bgmVolume)

\* C28: once setEnabled(false) has been called and until setEnabled(true) is
\* called, the background music is not playing: isBgmPlaying is false and
\* the audio element is paused, for every interleaving of setEnabled(false)
\* with the completion of a play() started by an earlier startBgm.
C28_NoBgmWhileDisabled ==
    ~engine.isEnabled =>
        /\ ~engine.isBgmPlaying
        /\ engine.bgmAudio # << >> => engine.bgmAudio[1].paused

\* the step ends the soundscape that is playing: isAmbientPlaying becomes
\* false or one of its oscillators is stopped
SoundscapeEnds ==
    /\ engine.isAmbientPlaying
    /\ \/ ~engine'.isAmbientPlaying
       \/ \E n \in 1..Len(engine.ambientNodes.oscillators) :
             /\ engine.ambientNodes.oscillators[n] \in browser.started
             /\ engine.ambientNodes.oscillators[n] \notin browser'.started

\* C29: the soundscape of a successful startAmbient keeps playing until the
\* next call of stopAmbient or setEnabled(false): it is ended only by the
\* timer of a stopAmbient call that faded this soundscape, never by the timer
\* of a stopAmbient call made before its startAmbient.
C29_AmbientEndedOnlyByItsOwnStop ==
    [][SoundscapeEnds =>
          /\ browser.timers # << >>
          /\ browser.timers[1].faded = engine.ambientNodes.masterGain]_vars


\* Properties of the navigation of the dashboard.

\* C30: 0 <= selectedIndex <= data.length - 1 in every reachable state, after
\* any sequence of wheel, arrow-key and touch navigation events interleaved
\* with data reloads caused by symbol changes, a reload that replaces the
\* data by a shorter series while the navigation handlers registered for the
\* previous length are still active included.
C30_SelectedIndexWithinData ==
    /\ 0 <= dashboard.selectedIndex
    /\ dashboard.selectedIndex <= Len(dashboard.data) - 1

====
